---- MODULE Spec2Model ----
(***************************************************************************)
(* Model of mechwolf.core.protocol.Protocol: the procedure list that add() *)
(* builds and the per-component timelines that compile() derives from it.  *)
(*                                                                         *)
(* Times are whole seconds (the floats stored by _add_single, restricted   *)
(* to an integer grid, on which math.isclose is equality).  A kwargs dict  *)
(* is a set of <<attribute, value>> pairs.  Python's None is the value     *)
(* None below, which is smaller than every time.  The apparatus is fixed   *)
(* and valid: component.validate() returns True and names are distinct.    *)
(* add() is called with time expressions: the start of a record is always  *)
(* a time (the default is "0 seconds"), only its stop can be None.         *)
(*                                                                         *)
(* The apparatus also holds a valve V and a temperature controller T.      *)
(* Values of kwargs are coded as numbers: a string is a number above 100,  *)
(* the booleans are 0 and 1, a temperature is its number of degrees        *)
(* Celsius.  compile() is modelled for the components A and B.             *)
(* The coroutine main of mechwolf.core.execute, which execute() starts,    *)
(* is modelled by its effect on the protocol when the run ends.            *)
(***************************************************************************)
EXTENDS Integers, Sequences, FiniteSets, TLC

\* Bounds of the model.
MaxProcs == 3
MaxLong == 4
MaxTime == 2
MaxParam == 2
MaxTyped == 2
MaxRun == 2

None == -1

\* Apparatus._active_components in iteration order, and a component that is
\* not part of the apparatus.
active_components == <<"A", "B">>
Components == {active_components[j] : j \in DOMAIN active_components}
Stranger == "X"

\* The instances of Valve and of TempControl in the apparatus.
Valves == {"V"}
TempControls == {"T"}

\* component.name.
name == [c \in Components \cup Valves \cup TempControls |->
            CASE c = "A" -> "pump_a" [] c = "B" -> "pump_b"
              [] c = "V" -> "valve" [] c = "T" -> "heater"]

\* The k-th string that is a value of a kwarg, and the test for a string.
Symbol(k) == 100 + k
IsString(v) == v > 100

\* Valve.mapping: symbolic names to the raw settings 1 and 2.
mapping == (Symbol(1) :> 1) @@ (Symbol(2) :> 2)

\* The temperature of the string "0 degC".
ZeroDegC == 0

Times == 0..MaxTime
Kwargs == {{}} \cup {{<<"x", v>>} : v \in 1..MaxParam}
KwargsLong == {{<<"x", 1>>}}

\* kwargs of calls for the valve (a name of the mapping, a name that is not
\* one, a raw setting of the mapping, another integer) and for the
\* temperature controller (active, temp, both, or only a name).
KwargsValve == {{<<"setting", v>>} : v \in {Symbol(1), Symbol(2), Symbol(3), 1, 2, 3}}
KwargsTemp ==
    {{<<"active", a>>} : a \in {0, 1}}
        \cup {{<<"temp", 50>>}}
        \cup {{<<"active", a>>, <<"temp", 50>>} : a \in {0, 1}}
        \cup {{<<"name", Symbol(1)>>}}
KwargsTyped == {{}} \cup KwargsValve \cup KwargsTemp

\* component.base_state(): the rest state of a component.
base_state == {<<"x", 0>>}

\* Outcomes of a call.
NoError == "none"
NotAComponent == "ValueError: not a component of the apparatus"
NoKwargs == "RuntimeError: No kwargs supplied"
StopAndDuration == "RuntimeError: Must provide one of stop and duration, not both"
StartAfterStop == "ValueError: Procedure beginning is after procedure end"
UnresolvableDuration == "RuntimeError: Unable to automatically infer duration of protocol"
ConflictingWholeDuration == "RuntimeError: cannot have two procedures for the entire duration of the protocol"
AmbiguousStart == "RuntimeError: Ambiguous start time"
InvalidAttribute == "ValueError: Invalid attribute"
BadTypeMatching == "ValueError: Bad type matching"
MissingTemperature == "RuntimeError: TempControl is activated but temperature setting is not given"
CannotClear == "RuntimeError: Unable to clear the procedures of a protocol that has been executed"
AlreadyRunning == "error logged: Protocol is currently running"

VARIABLES
    procedures,   \* Protocol.procedures
    result,       \* what the last call returned or raised
    added,        \* history: the records as add() appended them
    all_ok,       \* history: no compile() has failed so far
    is_executing, \* Protocol.is_executing
    was_executed  \* Protocol.was_executed

vars == <<procedures, result, added, all_ok, is_executing, was_executed>>

----------------------------------------------------------------------------
\* Python's sorted(): a stable sort of a sequence of [key, val] pairs.

RECURSIVE Insert(_, _)
Insert(s, e) ==
    IF s = <<>> THEN <<e>>
    ELSE IF Head(s).key <= e.key THEN <<Head(s)>> \o Insert(Tail(s), e)
    ELSE <<e>> \o s

RECURSIVE sorted(_)
sorted(s) ==
    IF s = <<>> THEN <<>>
    ELSE Insert(sorted(SubSeq(s, 1, Len(s) - 1)), s[Len(s)])

\* math.isclose(a, b) with the default tolerances, on whole seconds.
isclose(a, b) == a = b

----------------------------------------------------------------------------
\* kwargs.get(attr).
Get(kwargs, attr) ==
    IF \E p \in kwargs : p[1] = attr
    THEN (CHOOSE p \in kwargs : p[1] = attr)[2]
    ELSE None

\* hasattr(component, attr).
Attributes(component) ==
    IF component \in Valves THEN {"setting", "name"}
    ELSE IF component \in TempControls THEN {"active", "temp", "name"}
    ELSE {"x", "name"}

\* ValveMapped without the lookup: the setting is stored as it was given.
ValveUnmapped(component, kwargs) == kwargs

\* The mapping for valves: a setting that is a key of the mapping is
\* replaced by its value; on a KeyError the setting is left as it is,
\* whether or not it is an int.
ValveMapped(component, kwargs) ==
    LET setting == Get(kwargs, "setting")
    IN  IF component \in Valves /\ setting # None /\ setting \in DOMAIN mapping
        THEN (kwargs \ {<<"setting", setting>>}) \cup {<<"setting", mapping[setting]>>}
        ELSE kwargs

\* The type check of the kwargs: the name of a component is a string, the
\* other attributes are not (the values of the model have the dimensionality
\* their attribute asks for).
TypeMismatch(kwargs) ==
    \E p \in kwargs : (p[1] = "name") # IsString(p[2])

\* ActiveWithoutTemp without the third branch: nothing is raised.
ActiveWithoutTempAllowed(component, kwargs) == FALSE

\* The third branch of the temperature controller magic.
ActiveWithoutTemp(component, kwargs) ==
    /\ component \in TempControls
    /\ ~(Get(kwargs, "temp") # None /\ Get(kwargs, "active") = None)
    /\ ~(Get(kwargs, "active") \in {None, 0} /\ Get(kwargs, "temp") = None)
    /\ Get(kwargs, "active") = 1
    /\ Get(kwargs, "temp") = None

\* The first two branches: the kwargs the record is given.
TempDefaults(component, kwargs) ==
    IF component \notin TempControls THEN kwargs
    ELSE IF Get(kwargs, "temp") # None /\ Get(kwargs, "active") = None
    THEN kwargs \cup {<<"active", 1>>}
    ELSE IF Get(kwargs, "active") \in {None, 0} /\ Get(kwargs, "temp") = None
    THEN kwargs \cup {<<"temp", ZeroDegC>>}
    ELSE kwargs

\* Protocol._add_single: the error it raises, or NoError.  kwargs are the
\* kwargs after the mapping for valves.

AddError(component, stop, duration, kwargs, start_time, stop_time) ==
    IF component \notin Components \cup Valves \cup TempControls THEN NotAComponent
    ELSE IF kwargs = {} THEN NoKwargs
    ELSE IF \E p \in kwargs : p[1] \notin Attributes(component) THEN InvalidAttribute
    ELSE IF TypeMismatch(kwargs) THEN BadTypeMatching
    ELSE IF stop # None /\ duration # None THEN StopAndDuration
    ELSE IF stop_time # None /\ start_time > stop_time THEN StartAfterStop
    ELSE IF ActiveWithoutTemp(component, kwargs) THEN MissingTemperature
    ELSE NoError

\* The stop time _add_single computes from stop and duration.
StopTime(start, stop, duration) ==
    IF duration # None THEN start + duration ELSE stop

\* The record _add_single appends.
Procedure(component, start, stop, kwargs) ==
    [component |-> component, start |-> start, stop |-> stop, params |-> kwargs]

\* Protocol.add over an iterable of components: _add_single for each in
\* turn; the first error ends the call and keeps what was appended before.
RECURSIVE AddAll(_, _, _, _, _, _, _)
AddAll(procs, hist, comps, kwargs, start, stop, duration) ==
    IF comps = <<>> THEN [procs |-> procs, hist |-> hist, err |-> NoError]
    ELSE
        LET st == StopTime(start, stop, duration)
            kw == ValveMapped(Head(comps), kwargs)
            e == AddError(Head(comps), stop, duration, kw, start, st)
            rec == Procedure(Head(comps), start, st, TempDefaults(Head(comps), kw))
        IN  IF e # NoError THEN [procs |-> procs, hist |-> hist, err |-> e]
            ELSE AddAll(Append(procs, rec), Append(hist, rec),
                        Tail(comps), kwargs, start, stop, duration)

----------------------------------------------------------------------------
\* Protocol._inferred_duration: the last element of the stops sorted with
\* None counted as 0, or the error when every stop is None.

inferred_duration(procs) ==
    LET computed_durations ==
            sorted([i \in 1..Len(procs) |->
                       [key |-> IF procs[i].stop # None THEN procs[i].stop ELSE 0,
                        val |-> procs[i].stop]])
    IN  IF \A i \in 1..Len(computed_durations) : computed_durations[i].val = None
        THEN [err |-> UnresolvableDuration, value |-> None]
        ELSE [err |-> NoError, value |-> computed_durations[Len(computed_durations)].val]

\* The positions in procs of the records of one component, sorted by start.
component_procedures(procs, component) ==
    LET Mine(i) == procs[i].component = component
        mine == SelectSeq([i \in 1..Len(procs) |-> i], Mine)
        byStart == sorted([k \in 1..Len(mine) |->
                              [key |-> procs[mine[k]].start, val |-> mine[k]]])
    IN  [k \in 1..Len(byStart) |-> byStart[k].val]

\* The check for conflicting continuous procedures.
TwoWholeDuration(procs, cp) ==
    Cardinality({k \in 1..Len(cp) :
                    procs[cp[k]].start = None /\ procs[cp[k]].stop = None}) > 1

\* InferStops with the two branches of the neighbour check in the other
\* order: the stop is inferred before the start of the successor is looked at.
RECURSIVE InferStopsInferFirst(_, _, _)
InferStopsInferFirst(procs, cp, i) ==
    IF i > Len(cp) THEN [procs |-> procs, err |-> NoError]
    ELSE IF i < Len(cp) THEN
        IF procs[cp[i + 1]].start # None /\ procs[cp[i]].stop = None
        THEN InferStopsInferFirst([procs EXCEPT ![cp[i]].stop = procs[cp[i + 1]].start],
                                  cp, i + 1)
        ELSE IF procs[cp[i + 1]].start = 0
        THEN [procs |-> procs, err |-> AmbiguousStart]
        ELSE InferStopsInferFirst(procs, cp, i + 1)
    ELSE IF procs[cp[i]].stop = None THEN
        LET d == inferred_duration(procs)
        IN  IF d.err # NoError THEN [procs |-> procs, err |-> d.err]
            ELSE InferStopsInferFirst([procs EXCEPT ![cp[i]].stop = d.value], cp, i + 1)
    ELSE InferStopsInferFirst(procs, cp, i + 1)

\* The first loop of compile over one component's records, from the i-th:
\* stops are written into the records of the protocol.
RECURSIVE InferStops(_, _, _)
InferStops(procs, cp, i) ==
    IF i > Len(cp) THEN [procs |-> procs, err |-> NoError]
    ELSE IF i < Len(cp) THEN
        IF procs[cp[i + 1]].start = 0
        THEN [procs |-> procs, err |-> AmbiguousStart]
        ELSE IF procs[cp[i + 1]].start # None /\ procs[cp[i]].stop = None
        THEN InferStops([procs EXCEPT ![cp[i]].stop = procs[cp[i + 1]].start],
                        cp, i + 1)
        ELSE InferStops(procs, cp, i + 1)
    ELSE IF procs[cp[i]].stop = None THEN
        LET d == inferred_duration(procs)
        IN  IF d.err # NoError THEN [procs |-> procs, err |-> d.err]
            ELSE InferStops([procs EXCEPT ![cp[i]].stop = d.value], cp, i + 1)
    ELSE InferStops(procs, cp, i + 1)

\* BackToBase without the isclose test: the base state follows every record.
BackToBaseAlways(procs, cp, i) == TRUE

\* BackToBase for the last record only: no base state between two records.
BackToBaseOnlyLast(procs, cp, i) == i = Len(cp)

\* Whether the base state follows the i-th record of a component.
BackToBase(procs, cp, i) ==
    ~(i < Len(cp) /\ isclose(procs[cp[i + 1]].start, procs[cp[i]].stop))

\* The second loop of compile: the instructions of one component.
RECURSIVE Compiled(_, _, _, _)
Compiled(procs, cp, i, visualization) ==
    IF i > Len(cp) THEN <<>>
    ELSE
        LET p == procs[cp[i]]
        IN  IF visualization
            THEN <<[start |-> p.start, stop |-> p.stop, params |-> p.params]>>
                 \o Compiled(procs, cp, i + 1, visualization)
            ELSE <<[time |-> p.start, params |-> p.params]>>
                 \o (IF BackToBase(procs, cp, i)
                     THEN <<[time |-> p.stop, params |-> base_state]>>
                     ELSE <<>>)
                 \o Compiled(procs, cp, i + 1, visualization)

\* Protocol.compile from the j-th active component on: the records as it
\* leaves them, and the error raised or the dict returned.
RECURSIVE CompileFrom(_, _, _, _)
CompileFrom(procs, j, output, visualization) ==
    IF j > Len(active_components)
    THEN [procs |-> procs, err |-> NoError, output |-> output]
    ELSE
        LET component == active_components[j]
            cp == component_procedures(procs, component)
        IN  IF Len(cp) = 0
            THEN CompileFrom(procs, j + 1, output, visualization)
            ELSE IF TwoWholeDuration(procs, cp)
            THEN [procs |-> procs, err |-> ConflictingWholeDuration, output |-> <<>>]
            ELSE
                LET r == InferStops(procs, cp, 1)
                IN  IF r.err # NoError
                    THEN [procs |-> r.procs, err |-> r.err, output |-> <<>>]
                    ELSE CompileFrom(r.procs, j + 1,
                             output @@ (component :> Compiled(r.procs, cp, 1, visualization)),
                             visualization)

compile(procs, visualization) == CompileFrom(procs, 1, <<>>, visualization)

----------------------------------------------------------------------------
\* The protocol as a state machine.

Init ==
    /\ procedures = <<>>
    /\ added = <<>>
    /\ all_ok = TRUE
    /\ result = [op |-> "init", visualization |-> FALSE, err |-> NoError, output |-> <<>>]
    /\ is_executing = FALSE
    /\ was_executed = FALSE

\* The components add() is given: one, or an iterable of two.
Targets == {<<c>> : c \in Components \cup {Stranger}}
               \cup {<<active_components[1], d>> : d \in {active_components[2], Stranger}}

\* The (start, stop, duration) of a call.  A call that gives no start
\* passes the default "0 seconds", a call that gives no stop or duration
\* passes None.
DefaultStart == 0

TimeArgs ==
    {<<s, e, d>> \in Times \X (Times \cup {None}) \X (Times \cup {None}) :
        /\ d # None => s + d <= MaxTime
        /\ d # None /\ e # None => d = 0 /\ e = MaxTime}

\* The call add(comps, start, stop, duration, **kwargs), t being the times.
AddStep(comps, t, kwargs) ==
    /\ LET r == AddAll(procedures, added, comps, kwargs, t[1], t[2], t[3])
       IN  /\ procedures' = r.procs
           /\ added' = r.hist
           /\ result' = [op |-> "add", visualization |-> FALSE,
                         err |-> r.err, output |-> <<>>]
    /\ UNCHANGED <<all_ok, is_executing, was_executed>>

\* A call that fails before its times are read is made with the default
\* times only: other times give the same outcome.
AddWith(limit, targets, kwargsSet, timeArgs) ==
    \E comps \in targets, t \in timeArgs, kwargs \in kwargsSet :
        /\ Len(procedures) + Len(comps) <= limit
        /\ (Head(comps) = Stranger \/ kwargs = {}) => t = <<DefaultStart, None, None>>
        /\ AddStep(comps, t, kwargs)

AddCall(limit, targets, kwargsSet) == AddWith(limit, targets, kwargsSet, TimeArgs)

Add == AddCall(MaxProcs, Targets, Kwargs)

\* Longer protocols, built by calls with one component and one setting.
AddLong == AddCall(MaxLong, {<<c>> : c \in Components}, KwargsLong)

Compile(visualization) ==
    LET r == compile(procedures, visualization)
    IN  /\ procedures' = r.procs
        /\ result' = [op |-> "compile", visualization |-> visualization,
                      err |-> r.err, output |-> r.output]
        /\ all_ok' = (all_ok /\ r.err = NoError)
        /\ UNCHANGED <<added, is_executing, was_executed>>

CompileExecution == Compile(FALSE)

CompileVisualization == Compile(TRUE)

Next == Add \/ CompileExecution \/ CompileVisualization

Spec == Init /\ [][Next]_vars

NextLong == AddLong \/ CompileExecution

SpecLong == Init /\ [][NextLong]_vars

\* Calls for the valve and the temperature controller, alone or together,
\* and for a component that is not part of the apparatus:
\* with the default times, with a stop, with a later start, with a stop
\* before the start, and with both a stop and a duration.
TypedTargets == {<<"V">>, <<"T">>, <<"T", "V">>, <<Stranger>>}

TypedTimes ==
    { <<DefaultStart, None, None>>, <<DefaultStart, MaxTime, None>>,
      <<MaxTime, None, None>>,
      <<MaxTime, DefaultStart, None>>, <<DefaultStart, MaxTime, 0>> }

AddTyped == AddWith(MaxTyped, TypedTargets, KwargsTyped, TypedTimes)

\* Protocol.to_list: a copy of the records, in the order of the list, with
\* each component replaced by its name.
to_list(procs) ==
    [i \in 1..Len(procs) |-> [procs[i] EXCEPT !.component = name[procs[i].component]]]

ToList ==
    /\ result' = [op |-> "to_list", visualization |-> FALSE,
                  err |-> NoError, output |-> to_list(procedures)]
    /\ UNCHANGED <<procedures, added, all_ok, is_executing, was_executed>>

NextTyped == AddTyped \/ ToList

SpecTyped == Init /\ [][NextTyped]_vars

\* The message execute() gives a RuntimeError of compile.
Aborting(err) ==
    CASE err = UnresolvableDuration ->
             "RuntimeError: Unable to automatically infer duration of protocol Aborting execution..."
      [] err = ConflictingWholeDuration ->
             "RuntimeError: cannot have two procedures for the entire duration of the protocol Aborting execution..."
      [] err = AmbiguousStart -> "RuntimeError: Ambiguous start time Aborting execution..."
      [] OTHER -> err

\* Protocol.execute: nothing but a log entry while the protocol is
\* executing; otherwise it compiles, and when compile returns it marks the
\* protocol as executing and starts main.
Execute ==
    IF is_executing
    THEN /\ result' = [op |-> "execute", visualization |-> FALSE,
                       err |-> AlreadyRunning, output |-> <<>>]
         /\ UNCHANGED <<procedures, added, all_ok, is_executing, was_executed>>
    ELSE LET r == compile(procedures, FALSE)
         IN  /\ procedures' = r.procs
             /\ result' = [op |-> "execute", visualization |-> FALSE,
                           err |-> Aborting(r.err), output |-> r.output]
             /\ all_ok' = (all_ok /\ r.err = NoError)
             /\ is_executing' = (r.err = NoError)
             /\ UNCHANGED <<added, was_executed>>

\* The end of main: the protocol is no longer executing and was executed.
Finish ==
    /\ is_executing
    /\ is_executing' = FALSE
    /\ was_executed' = TRUE
    /\ result' = [op |-> "main", visualization |-> FALSE, err |-> NoError, output |-> <<>>]
    /\ UNCHANGED <<procedures, added, all_ok>>

\* Protocol.clear_procedures.
ClearProcedures ==
    IF ~was_executed \/ is_executing
    THEN /\ procedures' = <<>>
         /\ added' = <<>>
         /\ result' = [op |-> "clear", visualization |-> FALSE,
                       err |-> NoError, output |-> <<>>]
         /\ UNCHANGED <<all_ok, is_executing, was_executed>>
    ELSE /\ result' = [op |-> "clear", visualization |-> FALSE,
                       err |-> CannotClear, output |-> <<>>]
         /\ UNCHANGED <<procedures, added, all_ok, is_executing, was_executed>>

\* Calls of add() before and between runs: the default times, a stop, a
\* later start with a stop.
RunTimes ==
    { <<DefaultStart, None, None>>, <<DefaultStart, MaxTime, None>>,
      <<MaxTime - 1, MaxTime, None>> }

AddRun == AddWith(MaxRun, {<<c>> : c \in Components}, KwargsLong, RunTimes)

NextRun == AddRun \/ Execute \/ Finish \/ ClearProcedures

SpecRun == Init /\ [][NextRun]_vars

----------------------------------------------------------------------------
\* Vocabulary of the properties.

\* A step that is a call of compile, in either form or in execution form.
IsCompile ==
    result'.op = "compile" /\ (CompileExecution \/ CompileVisualization)

IsCompileExecution ==
    result'.op = "compile" /\ ~result'.visualization /\ CompileExecution

Positions(procs) == 1..Len(procs)

\* The largest stop that is defined in procs.
MaxDefinedStop(procs) ==
    CHOOSE m \in {procs[i].stop : i \in Positions(procs)} :
        \A i \in Positions(procs) : procs[i].stop <= m

\* Every record is one add() accepts: a stop, when set, is not before the start.
Accepted(procs) ==
    \A i \in Positions(procs) :
        procs[i].stop # None => procs[i].stop >= procs[i].start

\* No record of a component is still running when another one of it starts.
NonOverlapping(procs) ==
    \A i, j \in Positions(procs) :
        (/\ i # j
         /\ procs[i].component = procs[j].component
         /\ procs[i].start <= procs[j].start
         /\ procs[i].stop # None) => procs[i].stop <= procs[j].start

StrictlyIncreasing(timeline) ==
    \A k \in 1..(Len(timeline) - 1) : timeline[k].time < timeline[k + 1].time

\* A record that is not the first of its component, in start order, starts at 0.
ZeroSuccessor(procs, component) ==
    LET cp == component_procedures(procs, component)
    IN  \E k \in 2..Len(cp) : procs[cp[k]].start = 0

\* No stop is set, and the first active component that has records has one.
NothingToInferFrom(procs) ==
    /\ procs # <<>>
    /\ \A i \in Positions(procs) : procs[i].stop = None
    /\ \E j \in DOMAIN active_components :
        /\ Len(component_procedures(procs, active_components[j])) = 1
        /\ \A h \in 1..(j - 1) :
               Len(component_procedures(procs, active_components[h])) = 0

\* The records of a component are one without stop, then a later one with a
\* later stop.
OpenThenClosed(procs, component) ==
    LET cp == component_procedures(procs, component)
    IN  /\ Len(cp) = 2
        /\ procs[cp[1]].stop = None
        /\ procs[cp[1]].start < procs[cp[2]].start
        /\ procs[cp[2]].stop # None
        /\ procs[cp[2]].start < procs[cp[2]].stop

\* A record added with start left at its default and no stop or duration.
WholeDuration(rec) == rec.start = DefaultStart /\ rec.stop = None

----------------------------------------------------------------------------
\* C1: compile never changes the procedure records: after a compile, in
\* either output form, whether it returns or fails, Protocol.procedures holds
\* the same records, with the same start, stop, component and params, in the
\* same order as before the call.
C1_CompileLeavesRecords ==
    [][IsCompile => procedures' = procedures]_vars

\* C2: when every compile so far succeeded, the timelines the last compile
\* returned are those a single compile returns on a fresh protocol to which
\* the same add() calls were applied in the same order.
C2_IncrementalIsFresh ==
    (result.op = "compile" /\ all_ok) =>
        /\ compile(added, result.visualization).err = NoError
        /\ compile(added, result.visualization).output = result.output

\* C3: compile is idempotent: a compile that directly follows a compile of
\* the same output form fails with the same error or returns the same
\* timelines.
C3_CompileIdempotent ==
    [][(/\ IsCompile
        /\ result.op = "compile"
        /\ result'.visualization = result.visualization)
       => (result'.err = result.err /\ result'.output = result.output)]_vars

\* C4: for accepted records of which no two of one component overlap, every
\* execution-form timeline compile returns is strictly increasing in time
\* and starts no earlier than the smallest start of the component's records.
C4_TimelineStrictlyIncreasing ==
    [][(/\ IsCompileExecution
        /\ result'.err = NoError
        /\ Accepted(procedures)
        /\ NonOverlapping(procedures))
       => \A c \in DOMAIN result'.output :
            /\ StrictlyIncreasing(result'.output[c])
            /\ \A i \in Positions(procedures) :
                   procedures[i].component = c
                       => result'.output[c][1].time <= procedures[i].start
            /\ \E i \in Positions(procedures) :
                   /\ procedures[i].component = c
                   /\ result'.output[c][1].time = procedures[i].start]_vars

\* C5: in every reachable state, every record of Protocol.procedures whose
\* stop is set has stop >= start, the stops compile inferred included.
C5_StopNotBeforeStart == Accepted(procedures)

\* C6: a compile called when records exist and none has a stop fails with
\* the error of _inferred_duration and returns no timeline, however many
\* records each component has (a compile that fails first on an ambiguous
\* start aside).
C6_NoStopIsUnresolvable ==
    [][(/\ IsCompile
        /\ procedures # <<>>
        /\ \A i \in Positions(procedures) : procedures[i].stop = None)
       => (/\ result'.err \in {UnresolvableDuration, AmbiguousStart}
           /\ result'.output = <<>>)]_vars

\* C7: a successful compile gives the last record, in start order, of each
\* component, when it has no stop, the largest stop that was defined in the
\* records of all components when compile was called.
C7_LastStopIsMaxDefinedStop ==
    [][(/\ IsCompile
        /\ result'.err = NoError
        /\ \E i \in Positions(procedures) : procedures[i].stop # None)
       => \A c \in Components :
            LET cp == component_procedures(procedures, c)
            IN  (Len(cp) > 0 /\ procedures[cp[Len(cp)]].stop = None)
                    => procedures'[cp[Len(cp)]].stop = MaxDefinedStop(procedures)]_vars

\* C8: whenever a component has two or more records added without start,
\* stop or duration, compile fails with the error for two procedures for the
\* entire duration of the protocol.
C8_TwoWholeDurationRejected ==
    [][(/\ IsCompile
        /\ \E c \in Components :
              Cardinality({i \in Positions(added) :
                              added[i].component = c /\ WholeDuration(added[i])}) >= 2)
       => result'.err = ConflictingWholeDuration]_vars

\* C9 as stated: compile fails with the ambiguous start error if and only if
\* some component has a record that is not its first in start order and
\* starts at exactly zero.
C9_AmbiguousIffZeroSuccessor ==
    [][IsCompile =>
          (result'.err = AmbiguousStart
              <=> \E c \in Components : ZeroSuccessor(procedures, c))]_vars

\* C9 amended: compile fails with the ambiguous start error if and only if
\* some component has a record that is not its first in start order and
\* starts at exactly zero, unless no record has a stop and the first
\* component compile processes has a single record (the duration error is
\* raised first); and a record without stop whose successor starts at zero
\* is left without stop.
C9_AmbiguousUnlessUnresolvable ==
    [][IsCompile =>
          /\ result'.err = AmbiguousStart
                <=> (/\ \E c \in Components : ZeroSuccessor(procedures, c)
                     /\ ~NothingToInferFrom(procedures))
          /\ \A c \in Components :
                LET cp == component_procedures(procedures, c)
                IN  \A k \in 1..(Len(cp) - 1) :
                        (procedures[cp[k]].stop = None /\ procedures[cp[k + 1]].start = 0)
                            => procedures'[cp[k]].stop = None]_vars

\* C9 witness: a compile has failed on an ambiguous start and the record
\* before the one that starts at zero is still without stop.
C9_Witness ==
    /\ result.op = "compile"
    /\ result.err = AmbiguousStart
    /\ \E c \in Components :
          LET cp == component_procedures(procedures, c)
          IN  \E k \in 1..(Len(cp) - 1) :
                  procedures[cp[k]].stop = None /\ procedures[cp[k + 1]].start = 0

\* C10 as stated: a component with a record (s, no stop) and a record
\* (t, u), s < t < u, compiles in execution form to four instructions,
\* [(s, params1), (t, rest), (t, params2), (u, rest)].
C10_FourInstructions ==
    [][(IsCompileExecution /\ result'.err = NoError) =>
          \A c \in Components :
              OpenThenClosed(procedures, c) =>
                  LET cp == component_procedures(procedures, c)
                      r1 == procedures[cp[1]]
                      r2 == procedures[cp[2]]
                  IN  result'.output[c] =
                          << [time |-> r1.start, params |-> r1.params],
                             [time |-> r2.start, params |-> base_state],
                             [time |-> r2.start, params |-> r2.params],
                             [time |-> r2.stop, params |-> base_state] >>]_vars

\* C10 amended: such a component compiles in execution form to three
\* instructions, [(s, params1), (t, params2), (u, rest)]: the first record
\* ends when the second starts, so no rest state is put between them.
C10_ThreeInstructions ==
    [][(IsCompileExecution /\ result'.err = NoError) =>
          \A c \in Components :
              OpenThenClosed(procedures, c) =>
                  LET cp == component_procedures(procedures, c)
                      r1 == procedures[cp[1]]
                      r2 == procedures[cp[2]]
                  IN  result'.output[c] =
                          << [time |-> r1.start, params |-> r1.params],
                             [time |-> r2.start, params |-> r2.params],
                             [time |-> r2.stop, params |-> base_state] >>]_vars

\* C10 witness: the records {start 0, no stop, x: 1} and {start 1, stop 2,
\* x: 2} of one component were added and compiled in execution form.
C10_Witness ==
    /\ added = << Procedure("A", 0, None, {<<"x", 1>>}),
                  Procedure("A", 1, 2, {<<"x", 2>>}) >>
    /\ result.op = "compile"
    /\ ~result.visualization
    /\ result.err = NoError
    /\ Len(result.output["A"]) = 3

----------------------------------------------------------------------------
\* The params of the last record of procs.
LastParams(procs) == procs[Len(procs)].params

TimesAccepted(t) ==
    /\ ~(t[2] # None /\ t[3] # None)
    /\ ~(StopTime(t[1], t[2], t[3]) # None /\ t[1] > StopTime(t[1], t[2], t[3]))

\* C12: for the temperature controller, add() with active true and no temp
\* appends no record and fails, with the missing temperature error when the
\* times of the call are accepted; every accepted call stores a record with
\* a temp: active is set to true when temp was given without active, temp is
\* set to 0 degC when temp was omitted and active is false or absent, and
\* the kwargs are stored as given otherwise.  No record of the temperature
\* controller has active true without a temp.
C12_ActiveNeedsTemp ==
    [][result'.op = "add" =>
          /\ \A t \in TypedTimes, kwargs \in KwargsTemp :
                AddStep(<<"T">>, t, kwargs) =>
                    LET active == Get(kwargs, "active")
                        temp == Get(kwargs, "temp")
                    IN  /\ (active = 1 /\ temp = None)
                              => /\ result'.err # NoError
                                 /\ procedures' = procedures
                                 /\ TimesAccepted(t) => result'.err = MissingTemperature
                        /\ result'.err = NoError
                              => /\ Len(procedures') = Len(procedures) + 1
                                 /\ Get(LastParams(procedures'), "temp") # None
                                 /\ LastParams(procedures') =
                                        IF temp # None /\ active = None
                                        THEN kwargs \cup {<<"active", 1>>}
                                        ELSE IF temp = None
                                        THEN kwargs \cup {<<"temp", ZeroDegC>>}
                                        ELSE kwargs
          /\ \A i \in Positions(procedures') :
                procedures'[i].component \in TempControls
                    => ~(/\ Get(procedures'[i].params, "active") = 1
                         /\ Get(procedures'[i].params, "temp") = None)]_vars

\* C12 witness: a call with active true and no temp has just failed, after
\* a call with active false and no temp stored a record with the default temp.
C12_Witness ==
    /\ result.op = "add"
    /\ result.err = MissingTemperature
    /\ \E i \in Positions(procedures) :
          /\ procedures[i].component = "T"
          /\ procedures[i].params = {<<"active", 0>>, <<"temp", ZeroDegC>>}

\* The records of a list are in non-decreasing order of start.
SortedByStart(list) ==
    \A k \in 1..(Len(list) - 1) : list[k].start <= list[k + 1].start

\* C13: the list to_list returns is in non-decreasing order of start, each
\* entry holds the name of the component of the record at its position, and
\* the call leaves Protocol.procedures unchanged.
C13_ExportSortedByStart ==
    [][(result'.op = "to_list" /\ ToList) =>
          /\ SortedByStart(result'.output)
          /\ Len(result'.output) = Len(procedures)
          /\ \A i \in Positions(procedures) :
                result'.output[i].component = name[procedures[i].component]
          /\ procedures' = procedures]_vars

\* The stop compile reports for the record at position i: the stop of the
\* record after the call, which is also the stop of its entry in the
\* visualization form.
ReportedStop(i) == procedures'[i].stop

\* C14: after a successful compile, every record that is not the last of
\* its component in start order (ties in insertion order) is reported with
\* the start of its immediate successor as stop when it was added without
\* stop, and with the stop it was added with otherwise, even when that stop
\* is later than the start of the successor.
C14_StopFromSuccessor ==
    [][(IsCompile /\ result'.err = NoError) =>
          \A c \in Components :
              LET cp == component_procedures(procedures, c)
              IN  \A k \in 1..(Len(cp) - 1) :
                      /\ ReportedStop(cp[k]) =
                            IF added[cp[k]].stop = None
                            THEN procedures[cp[k + 1]].start
                            ELSE added[cp[k]].stop
                      /\ result'.visualization
                            => result'.output[c][k].stop = ReportedStop(cp[k])]_vars

\* The k-th record of cp, as compile leaves it, is followed by a rest
\* instruction: it is the last one, or the next one does not start at its stop.
RestAfter(cp, k) ==
    k = Len(cp) \/ ~isclose(procedures'[cp[k + 1]].start, procedures'[cp[k]].stop)

\* The place in the timeline of the instruction of the k-th record of cp.
PlaceOf(cp, k) == k + Cardinality({j \in 1..(k - 1) : RestAfter(cp, j)})

\* C15: a successful compile in execution form returns a timeline for each
\* component that has records, and no other.  The timeline holds, for each
\* record in start order, one instruction at the start of the record with
\* its params, directly followed by the base state at the stop of the
\* record if and only if the record is the last one or the next one does not
\* start at that stop, and nothing else.  So it ends with the base state at
\* the stop of the last record and has between n + 1 and 2n instructions
\* for n records.
C15_EmissionRule ==
    [][(IsCompileExecution /\ result'.err = NoError) =>
          \A c \in Components :
              LET cp == component_procedures(procedures, c)
                  n == Len(cp)
              IN  IF n = 0 THEN c \notin DOMAIN result'.output
                  ELSE
                      LET timeline == result'.output[c]
                      IN  /\ c \in DOMAIN result'.output
                          /\ Len(timeline) = n + Cardinality({k \in 1..n : RestAfter(cp, k)})
                          /\ \A k \in 1..n :
                                /\ timeline[PlaceOf(cp, k)] =
                                      [time |-> procedures[cp[k]].start,
                                       params |-> procedures[cp[k]].params]
                                /\ RestAfter(cp, k) =>
                                      timeline[PlaceOf(cp, k) + 1] =
                                          [time |-> procedures'[cp[k]].stop,
                                           params |-> base_state]
                          /\ timeline[Len(timeline)] =
                                [time |-> procedures'[cp[n]].stop, params |-> base_state]
                          /\ n + 1 <= Len(timeline)
                          /\ Len(timeline) <= 2 * n]_vars

\* C15 witness: a component with three records, of which the second starts
\* at the stop of the first and the third after the stop of the second, was
\* compiled in execution form to five instructions.
C15_Witness ==
    /\ result.op = "compile"
    /\ ~result.visualization
    /\ result.err = NoError
    /\ \E c \in DOMAIN result.output :
          LET cp == component_procedures(procedures, c)
          IN  /\ Len(cp) = 3
              /\ procedures[cp[2]].start = procedures[cp[1]].stop
              /\ procedures[cp[3]].start > procedures[cp[2]].stop
              /\ Len(result.output[c]) = 5

\* C16: a call of add() that raises, for one component or for several and
\* whichever of them the error is raised for, leaves Protocol.procedures
\* exactly as it was before the call.
C16_FailingAddLeavesRecords ==
    [][(result'.op = "add" /\ result'.err # NoError) => procedures' = procedures]_vars

\* C17: whenever was_executed is true, clear_procedures raises the error
\* for a protocol that has been executed and leaves Protocol.procedures
\* unchanged, whether or not the protocol is executing; records are removed
\* only from a protocol that was never executed.
C17_ExecutedNeverCleared ==
    [][(result'.op = "clear" /\ ClearProcedures) =>
          /\ was_executed => (result'.err = CannotClear /\ procedures' = procedures)
          /\ procedures' # procedures => ~was_executed]_vars

====
